---- MODULE Spec2Model ----
(***************************************************************************)
(* Model of pkg/fetch (fetch.go): Fetch and fetchHTTP.                     *)
(*                                                                         *)
(* Strings (paths, resource identifiers) are sequences of tokens; a token  *)
(* stands for a run of characters: "/" is the path separator, "." and ".." *)
(* the dot components, ".download" the temp suffix, "http:" etc. a scheme  *)
(* with its colon, "%zz" a malformed escape, anything else a name.         *)
(***************************************************************************)
EXTENDS Integers, Sequences, FiniteSets, TLC

VARIABLES fs, pc, resource, options, url, reqURL, via, lastLocation, resp,
          dest, destTmp, bodyOpen, tmpOpen, bar, copied, ret,
          fs0, touched, parsed, requested, redirected, callNo, callId

vars == <<fs, pc, resource, options, url, reqURL, via, lastLocation, resp,
          dest, destTmp, bodyOpen, tmpOpen, bar, copied, ret,
          fs0, touched, parsed, requested, redirected, callNo, callId>>

(* ------------------------------ bounds --------------------------------- *)
MaxCalls == 2
BodyLen == 2

(* ----------------------- strings and path functions -------------------- *)
Sep == "/"
Last(s) == s[Len(s)]
Front(s) == SubSeq(s, 1, Len(s) - 1)

RECURSIVE StripTrailingSeps(_)
StripTrailingSeps(path) ==
  IF Len(path) > 0 /\ Last(path) = Sep THEN StripTrailingSeps(Front(path))
  ELSE path

RECURSIVE LastElement(_)
LastElement(path) ==
  IF Len(path) = 0 \/ Last(path) = Sep THEN <<>>
  ELSE Append(LastElement(Front(path)), Last(path))

\* filepath.Base
Base(path) ==
  IF path = <<>> THEN <<".">>
  ELSE LET e == LastElement(StripTrailingSeps(path))
       IN IF e = <<>> THEN <<Sep>> ELSE e

\* the separator-delimited elements of a path, empty ones included
RECURSIVE Split(_)
Split(path) ==
  IF \A i \in 1..Len(path) : path[i] # Sep THEN <<path>>
  ELSE LET i == CHOOSE k \in 1..Len(path) :
                  path[k] = Sep /\ \A j \in 1..(k-1) : path[j] # Sep
       IN <<SubSeq(path, 1, i - 1)>> \o Split(SubSeq(path, i + 1, Len(path)))

RECURSIVE CleanElems(_, _, _)
CleanElems(elems, acc, rooted) ==
  IF elems = <<>> THEN acc
  ELSE LET e == Head(elems)
           rest == Tail(elems)
       IN IF e = <<>> \/ e = <<".">> THEN CleanElems(rest, acc, rooted)
          ELSE IF e = <<"..">> THEN
                 IF acc # <<>> /\ Last(acc) # <<"..">>
                   THEN CleanElems(rest, Front(acc), rooted)
                 ELSE IF rooted THEN CleanElems(rest, acc, rooted)
                 ELSE CleanElems(rest, Append(acc, e), rooted)
          ELSE CleanElems(rest, Append(acc, e), rooted)

RECURSIVE JoinElems(_)
JoinElems(elems) ==
  IF elems = <<>> THEN <<>>
  ELSE IF Len(elems) = 1 THEN Head(elems)
  ELSE Head(elems) \o <<Sep>> \o JoinElems(Tail(elems))

\* filepath.Clean
Clean(path) ==
  IF path = <<>> THEN <<".">>
  ELSE LET rooted == Head(path) = Sep
           out == JoinElems(CleanElems(Split(path), <<>>, rooted))
       IN IF rooted THEN <<Sep>> \o out
          ELSE IF out = <<>> THEN <<".">> ELSE out

\* filepath.Join of two elements
Join(a, b) ==
  IF a = <<>> /\ b = <<>> THEN <<>>
  ELSE IF a = <<>> THEN Clean(b)
  ELSE IF b = <<>> THEN Clean(a)
  ELSE Clean(a \o <<Sep>> \o b)

(* ------------------------------ URLs ----------------------------------- *)
SchemeTokens == {"http:", "https:", "file:", "ftp:"}
SchemeOf(tok) ==
  CASE tok = "http:" -> "http"
    [] tok = "https:" -> "https"
    [] tok = "file:" -> "file"
    [] tok = "ftp:" -> "ftp"

NoURL == [Scheme |-> "", Host |-> <<>>, Path |-> <<>>]

\* url.Parse: ok is FALSE when the string is rejected
ParseURL(s) ==
  IF \E i \in 1..Len(s) : s[i] = "%zz" THEN [ok |-> FALSE, u |-> NoURL]
  ELSE IF Len(s) > 0 /\ Head(s) \in SchemeTokens THEN
    LET rest == Tail(s)
    IN IF Len(rest) >= 2 /\ rest[1] = Sep /\ rest[2] = Sep THEN
         LET auth == SubSeq(rest, 3, Len(rest))
             host == Head(Split(auth))
         IN [ok |-> TRUE,
             u |-> [Scheme |-> SchemeOf(Head(s)), Host |-> host,
                    Path |-> SubSeq(auth, Len(host) + 1, Len(auth))]]
       ELSE [ok |-> TRUE,
             u |-> [Scheme |-> SchemeOf(Head(s)), Host |-> <<>>, Path |-> rest]]
  ELSE [ok |-> TRUE, u |-> [Scheme |-> "", Host |-> <<>>, Path |-> s]]

(* --------------------------- local storage ----------------------------- *)
\* fs maps every existing (cleaned, absolute) path to its entry.  The data of
\* a file is the sequence of chunks written to it; chunk <<c, i>> is the i-th
\* chunk of the body served to call number c (c = 0: content that was on disk
\* before the first call).
DirEntry == [kind |-> "dir", data |-> <<>>]
FileEntry(d) == [kind |-> "file", data |-> d]
BodyOf(c) == [i \in 1..BodyLen |-> <<c, i>>]

\* os.Stat succeeds
Stat(fsys, name) == name # <<>> /\ Clean(name) \in DOMAIN fsys

\* dry.FileExists
FileExists(fsys, name) == Stat(fsys, name)

\* dry.FileIsDir
FileIsDir(fsys, name) == Stat(fsys, name) /\ fsys[Clean(name)].kind = "dir"

IsFile(fsys, name) == Stat(fsys, name) /\ fsys[Clean(name)].kind = "file"

Parent(path) == Clean(path \o <<Sep, "..">>)

\* os.Create can succeed: the parent is a directory and the name is not one
CanCreate(fsys, name) ==
  /\ name # <<>>
  /\ FileIsDir(fsys, Parent(name))
  /\ ~FileIsDir(fsys, name)

CreateNoTrunc(fsys, name) ==
  IF Clean(name) \in DOMAIN fsys THEN fsys
  ELSE (Clean(name) :> FileEntry(<<>>)) @@ fsys

\* os.Create: O_CREATE|O_TRUNC
Create(fsys, name) == (Clean(name) :> FileEntry(<<>>)) @@ fsys

\* Write through the handle opened on name
WriteChunk(fsys, name, chunk) ==
  IF IsFile(fsys, name)
    THEN [fsys EXCEPT ![Clean(name)].data = Append(@, chunk)]
    ELSE fsys

\* os.Rename can succeed
CanRename(fsys, old, new) ==
  /\ IsFile(fsys, old)
  /\ new # <<>>
  /\ FileIsDir(fsys, Parent(new))
  /\ ~FileIsDir(fsys, new)

RenameCopy(fsys, old, new) == (Clean(new) :> fsys[Clean(old)]) @@ fsys

\* os.Rename
Rename(fsys, old, new) ==
  LET moved == (Clean(new) :> fsys[Clean(old)]) @@ fsys
  IN [q \in (DOMAIN moved) \ {Clean(old)} |-> moved[q]]

(* ------------------------------ inputs --------------------------------- *)
Procs == {"p1", "p2"}
MainProc == "p1"

DirT == <<Sep, "t">>
LocalL == <<Sep, "t", Sep, "l">>
FileF == <<Sep, "t", Sep, "f">>
TmpSuffix == <<".download">>

InitFS == (<<Sep>> :> DirEntry) @@ (DirT :> DirEntry)
          @@ (LocalL :> FileEntry(BodyOf(0)))

HTTPResources == { <<"http:", Sep, Sep, "a", Sep, "x">>,
                   <<"https:", Sep, Sep, "a", Sep>> }
FileResources == { <<"file:", Sep, Sep, Sep, "t", Sep, "l">>,
                   <<"file:", Sep, Sep, Sep, "t", Sep, "m">>,
                   <<"file:", Sep, Sep, "h", Sep, "t", Sep, "l">> }
Resources == HTTPResources \cup FileResources \cup
             { LocalL, DirT, <<Sep, "t", Sep, "m">>,
               <<"ftp:", Sep, Sep, "a", Sep, "x">>, <<"%zz">> }

Destinations == { <<>>, DirT, FileF, FileF \o TmpSuffix }
\* *Options: <<>> is nil, <<o>> points to o
OptionValues == { <<>> } \cup
  { <<[Destination |-> d, Progress |-> FALSE]>> : d \in Destinations } \cup
  { <<[Destination |-> DirT, Progress |-> TRUE]>> }

RedirectTargets == { [Scheme |-> "http", Host |-> <<"b">>, Path |-> <<Sep, "y">>],
                     [Scheme |-> "http", Host |-> <<"a">>, Path |-> <<Sep, "x">>] }
Statuses == {200, 201, 206, 404, 500}

(* ------------------------------ errors --------------------------------- *)
Err(kind, code, u, scheme) ==
  [kind |-> kind, code |-> code, url |-> u, scheme |-> scheme]
NoErr == Err("nil", 0, NoURL, "")
ErrMissingDestination == Err("MissingDestination", 0, NoURL, "")
ErrParse == Err("Parse", 0, NoURL, "")
ErrUnknownScheme(s) == Err("UnknownScheme", 0, NoURL, s)
ErrTooManyRedirects == Err("TooManyRedirects", 0, NoURL, "")
ErrUnexpectedStatus(code, u) == Err("UnexpectedStatus", code, u, "")
ErrTransport == Err("Transport", 0, NoURL, "")
ErrIO(op) == Err(op, 0, NoURL, "")

StatusOK == 200
MaxRedirects == 10

(* ------------------------------- Fetch --------------------------------- *)
NilOptions == [Destination |-> <<>>, Progress |-> FALSE]
\* if options == nil { options = &Options{} }
Deref(opt) == IF opt = <<>> THEN NilOptions ELSE opt[1]

\* the local-file shortcut
LocalShortcutMut(fsys, res) == FALSE
LocalShortcut(fsys, res) == FileExists(fsys, res)

\* the result for a file: URL
FileURLPathMut(u) == Tail(u.Path)
FileURLPath(u) == u.Path

\* the destination check
DestinationMissingMut(opt) == opt = <<>>
DestinationMissing(opt) == Deref(opt).Destination = <<>>

\* Fetch, up to the call of fetchHTTP
FetchDispatch(fsys, res, opt) ==
  IF LocalShortcut(fsys, res)
    THEN [kind |-> "local", path |-> res, err |-> NoErr, parsed |-> FALSE, u |-> NoURL]
  ELSE IF DestinationMissing(opt)
    THEN [kind |-> "nodest", path |-> <<>>, err |-> ErrMissingDestination,
          parsed |-> FALSE, u |-> NoURL]
  ELSE LET pr == ParseURL(res)
       IN IF ~pr.ok
            THEN [kind |-> "badurl", path |-> <<>>, err |-> ErrParse,
                  parsed |-> TRUE, u |-> NoURL]
          ELSE IF pr.u.Scheme = "file"
            THEN [kind |-> "file", path |-> FileURLPath(pr.u), err |-> NoErr,
                  parsed |-> TRUE, u |-> pr.u]
          ELSE IF pr.u.Scheme \in {"http", "https"}
            THEN [kind |-> "http", path |-> <<>>, err |-> NoErr,
                  parsed |-> TRUE, u |-> pr.u]
          ELSE [kind |-> "scheme", path |-> <<>>, err |-> ErrUnknownScheme(pr.u.Scheme),
                parsed |-> TRUE, u |-> pr.u]

NotReturned == [done |-> FALSE, path |-> <<>>, err |-> NoErr]
Returned(path, err) == [done |-> TRUE, path |-> path, err |-> err]

\* One call of Fetch(res, opt) by p; for an http(s) resource it runs on into
\* fetchHTTP up to the point where the request is about to be sent.
Call(p, res, opt, kind) ==
  /\ pc[p] = "idle"
  /\ callNo < MaxCalls
  /\ LET d == FetchDispatch(fs, res, opt)
     IN /\ d.kind = kind
        /\ resource' = [resource EXCEPT ![p] = res]
        /\ options' = [options EXCEPT ![p] = opt]
        /\ parsed' = [parsed EXCEPT ![p] = d.parsed]
        /\ url' = [url EXCEPT ![p] = d.u]
        /\ reqURL' = [reqURL EXCEPT ![p] = d.u]
        /\ pc' = [pc EXCEPT ![p] = IF kind = "http" THEN "do" ELSE "idle"]
        /\ ret' = [ret EXCEPT ![p] =
                     IF kind = "http" THEN NotReturned ELSE Returned(d.path, d.err)]
  /\ callNo' = callNo + 1
  /\ callId' = [callId EXCEPT ![p] = callNo + 1]
  /\ fs0' = [fs0 EXCEPT ![p] = fs]
  /\ touched' = [touched EXCEPT ![p] = {}]
  /\ via' = [via EXCEPT ![p] = 0]
  /\ requested' = [requested EXCEPT ![p] = FALSE]
  /\ redirected' = [redirected EXCEPT ![p] = FALSE]
  /\ lastLocation' = [lastLocation EXCEPT ![p] = <<>>]
  /\ resp' = [resp EXCEPT ![p] = 0]
  /\ dest' = [dest EXCEPT ![p] = <<>>]
  /\ destTmp' = [destTmp EXCEPT ![p] = <<>>]
  /\ copied' = [copied EXCEPT ![p] = 0]
  /\ bar' = [bar EXCEPT ![p] = "none"]
  /\ UNCHANGED <<fs, bodyOpen, tmpOpen>>

FetchLocal(p, res, opt) == Call(p, res, opt, "local")
FetchNoDestination(p, res, opt) == Call(p, res, opt, "nodest")
FetchBadURL(p, res, opt) == Call(p, res, opt, "badurl")
FetchFileURL(p, res, opt) == Call(p, res, opt, "file")
FetchHTTP(p, res, opt) == Call(p, res, opt, "http")
FetchUnknownScheme(p, res, opt) == Call(p, res, opt, "scheme")

(* ----------------------------- fetchHTTP ------------------------------- *)
frame == <<resource, options, url, fs0, parsed, callNo, callId>>


ReturnNoDefer(p, path, err) ==
  /\ ret' = [ret EXCEPT ![p] = Returned(path, err)]
  /\ pc' = [pc EXCEPT ![p] = "idle"]
  /\ UNCHANGED <<bodyOpen, tmpOpen>>
  /\ bar' = [bar EXCEPT ![p] = IF @ = "started" THEN "finished" ELSE @]

\* return from fetchHTTP: the deferred Close and Finish calls run
Return(p, path, err) ==
  /\ ret' = [ret EXCEPT ![p] = Returned(path, err)]
  /\ pc' = [pc EXCEPT ![p] = "idle"]
  /\ bodyOpen' = [bodyOpen EXCEPT ![p] = FALSE]
  /\ tmpOpen' = [tmpOpen EXCEPT ![p] = FALSE]
  /\ bar' = [bar EXCEPT ![p] = IF @ = "started" THEN "finished" ELSE @]

\* via[p] is len(via) inside the running httpClient.Do, 0 outside of it.
\* the CheckRedirect hook: refuses when via already holds 10 requests
CheckRedirectRefusesMut(viaLen) == viaLen > MaxRedirects
CheckRedirectRefuses(viaLen) == viaLen >= MaxRedirects

\* the CheckRedirect hook: lastLocation = req.URL
RecordLocationMut(old, target) == IF old = <<>> THEN <<target>> ELSE old
RecordLocation(old, target) == <<target>>

\* httpClient.Do: the request fails in transport
DoSendError(p) ==
  /\ pc[p] = "do"
  /\ via' = [via EXCEPT ![p] = 0]
  /\ requested' = [requested EXCEPT ![p] = TRUE]
  /\ UNCHANGED redirected
  /\ Return(p, <<>>, ErrTransport)
  /\ UNCHANGED <<fs, reqURL, lastLocation, resp, dest, destTmp, copied, touched>>
  /\ UNCHANGED frame

\* httpClient.Do: the response redirects to target and the hook accepts
DoRedirect(p, target) ==
  /\ pc[p] = "do"
  /\ ~CheckRedirectRefuses(via[p] + 1)
  /\ via' = [via EXCEPT ![p] = @ + 1]
  /\ requested' = [requested EXCEPT ![p] = TRUE]
  /\ redirected' = [redirected EXCEPT ![p] = TRUE]
  /\ lastLocation' = [lastLocation EXCEPT ![p] = RecordLocation(@, target)]
  /\ reqURL' = [reqURL EXCEPT ![p] = target]
  /\ UNCHANGED <<fs, pc, resp, dest, destTmp, bodyOpen, tmpOpen, bar, copied,
                 ret, touched>>
  /\ UNCHANGED frame

\* httpClient.Do: the response redirects and the hook refuses
DoTooManyRedirects(p, target) ==
  /\ pc[p] = "do"
  /\ CheckRedirectRefuses(via[p] + 1)
  /\ via' = [via EXCEPT ![p] = 0]
  /\ requested' = [requested EXCEPT ![p] = TRUE]
  /\ UNCHANGED redirected
  /\ Return(p, <<>>, ErrTooManyRedirects)
  /\ UNCHANGED <<fs, reqURL, lastLocation, resp, dest, destTmp, copied, touched>>
  /\ UNCHANGED frame

\* the status check
StatusAcceptedMut(status) == status >= 200 /\ status < 300
StatusAccepted(status) == status = StatusOK

DoBadStatusShortcut(p, status) ==
  /\ pc[p] = "do"
  /\ ~StatusAccepted(status)
  /\ via' = [via EXCEPT ![p] = 0]
  /\ requested' = [requested EXCEPT ![p] = TRUE]
  /\ UNCHANGED redirected
  /\ resp' = [resp EXCEPT ![p] = status]
  /\ IF FileExists(fs, Deref(options[p]).Destination)
          /\ ~FileIsDir(fs, Deref(options[p]).Destination)
       THEN Return(p, Deref(options[p]).Destination, NoErr)
       ELSE Return(p, <<>>, ErrUnexpectedStatus(status, url[p]))
  /\ UNCHANGED <<fs, reqURL, lastLocation, dest, destTmp, copied, touched>>
  /\ UNCHANGED frame

\* httpClient.Do returns a terminal response whose status is rejected
DoBadStatus(p, status) ==
  /\ pc[p] = "do"
  /\ ~StatusAccepted(status)
  /\ via' = [via EXCEPT ![p] = 0]
  /\ requested' = [requested EXCEPT ![p] = TRUE]
  /\ UNCHANGED redirected
  /\ resp' = [resp EXCEPT ![p] = status]
  /\ Return(p, <<>>, ErrUnexpectedStatus(status, url[p]))
  /\ UNCHANGED <<fs, reqURL, lastLocation, dest, destTmp, copied, touched>>
  /\ UNCHANGED frame

\* httpClient.Do returns a terminal response whose status is accepted
DoOK(p, status) ==
  /\ pc[p] = "do"
  /\ StatusAccepted(status)
  /\ via' = [via EXCEPT ![p] = 0]
  /\ requested' = [requested EXCEPT ![p] = TRUE]
  /\ UNCHANGED redirected
  /\ resp' = [resp EXCEPT ![p] = status]
  /\ bodyOpen' = [bodyOpen EXCEPT ![p] = TRUE]
  /\ pc' = [pc EXCEPT ![p] = "dest"]
  /\ UNCHANGED <<fs, reqURL, lastLocation, dest, destTmp, tmpOpen, bar, copied,
                 ret, touched>>
  /\ UNCHANGED frame

\* the final destination path
FinalDest(fsys, destination, u, lastLoc) ==
  IF FileIsDir(fsys, destination)
    THEN IF lastLoc = <<>>
           THEN Join(destination, Base(u.Path))
           ELSE Join(destination, Base(lastLoc[1].Path))
    ELSE destination

ComputeDest(p) ==
  /\ pc[p] = "dest"
  /\ dest' = [dest EXCEPT ![p] =
                FinalDest(fs, Deref(options[p]).Destination, url[p], lastLocation[p])]
  /\ pc' = [pc EXCEPT ![p] = "exists"]
  /\ UNCHANGED <<fs, reqURL, via, lastLocation, resp, destTmp, bodyOpen, tmpOpen,
                 bar, copied, ret, touched>>
  /\ UNCHANGED <<requested, redirected>>
  /\ UNCHANGED frame

\* the already-fetched check
AlreadyFetchedMut(fsys, d) == FALSE
AlreadyFetchedAlways(fsys, d) == TRUE
AlreadyFetched(fsys, d) == FileExists(fsys, d)

DestExists(p) ==
  /\ pc[p] = "exists"
  /\ AlreadyFetched(fs, dest[p])
  /\ Return(p, dest[p], NoErr)
  /\ UNCHANGED <<fs, reqURL, via, lastLocation, resp, dest, destTmp, copied, touched>>
  /\ UNCHANGED <<requested, redirected>>
  /\ UNCHANGED frame

\* the name of the temp file
TmpNameMut(d) == d
TmpName(d) == d \o TmpSuffix

DestAbsent(p) ==
  /\ pc[p] = "exists"
  /\ ~AlreadyFetched(fs, dest[p])
  /\ destTmp' = [destTmp EXCEPT ![p] = TmpName(dest[p])]
  /\ pc' = [pc EXCEPT ![p] = "create"]
  /\ UNCHANGED <<fs, reqURL, via, lastLocation, resp, dest, bodyOpen, tmpOpen,
                 bar, copied, ret, touched>>
  /\ UNCHANGED <<requested, redirected>>
  /\ UNCHANGED frame

CreateTmp(p) ==
  /\ pc[p] = "create"
  /\ CanCreate(fs, destTmp[p])
  /\ fs' = Create(fs, destTmp[p])
  /\ touched' = [touched EXCEPT ![p] = @ \cup {Clean(destTmp[p])}]
  /\ tmpOpen' = [tmpOpen EXCEPT ![p] = TRUE]
  /\ bar' = [bar EXCEPT ![p] = IF Deref(options[p]).Progress THEN "started" ELSE @]
  /\ pc' = [pc EXCEPT ![p] = "copy"]
  /\ UNCHANGED <<reqURL, via, lastLocation, resp, dest, destTmp, bodyOpen, copied, ret>>
  /\ UNCHANGED <<requested, redirected>>
  /\ UNCHANGED frame

CreateTmpFail(p) ==
  /\ pc[p] = "create"
  /\ Return(p, <<>>, ErrIO("Create"))
  /\ UNCHANGED <<fs, reqURL, via, lastLocation, resp, dest, destTmp, copied, touched>>
  /\ UNCHANGED <<requested, redirected>>
  /\ UNCHANGED frame

\* io.Copy moves one more chunk of the body into the temp file
CopyChunk(p) ==
  /\ pc[p] = "copy"
  /\ copied[p] < BodyLen
  /\ fs' = WriteChunk(fs, destTmp[p], <<callId[p], copied[p] + 1>>)
  /\ touched' = [touched EXCEPT ![p] = @ \cup {Clean(destTmp[p])}]
  /\ copied' = [copied EXCEPT ![p] = @ + 1]
  /\ UNCHANGED <<pc, reqURL, via, lastLocation, resp, dest, destTmp, bodyOpen,
                 tmpOpen, bar, ret>>
  /\ UNCHANGED <<requested, redirected>>
  /\ UNCHANGED frame

CopyFailMut(p) ==
  /\ pc[p] = "copy"
  /\ fs' = IF CanRename(fs, destTmp[p], dest[p])
             THEN Rename(fs, destTmp[p], dest[p]) ELSE fs
  /\ touched' = [touched EXCEPT ![p] = @ \cup {Clean(destTmp[p]), Clean(dest[p])}]
  /\ Return(p, <<>>, ErrIO("Copy"))
  /\ UNCHANGED <<reqURL, via, lastLocation, resp, dest, destTmp, copied>>
  /\ UNCHANGED <<requested, redirected>>
  /\ UNCHANGED frame

\* io.Copy fails: a read from the body or a write to the temp file
CopyFail(p) ==
  /\ pc[p] = "copy"
  /\ Return(p, <<>>, ErrIO("Copy"))
  /\ UNCHANGED <<fs, reqURL, via, lastLocation, resp, dest, destTmp, copied, touched>>
  /\ UNCHANGED <<requested, redirected>>
  /\ UNCHANGED frame

CopyDoneNoClose(p) ==
  /\ pc[p] = "copy"
  /\ copied[p] = BodyLen
  /\ pc' = [pc EXCEPT ![p] = "rename"]
  /\ UNCHANGED <<fs, reqURL, via, lastLocation, resp, dest, destTmp, bar, copied,
                 ret, touched, tmpOpen, bodyOpen>>
  /\ UNCHANGED <<requested, redirected>>
  /\ UNCHANGED frame

\* io.Copy reaches the end of the body; both handles are closed
CopyDone(p) ==
  /\ pc[p] = "copy"
  /\ copied[p] = BodyLen
  /\ tmpOpen' = [tmpOpen EXCEPT ![p] = FALSE]
  /\ bodyOpen' = [bodyOpen EXCEPT ![p] = FALSE]
  /\ pc' = [pc EXCEPT ![p] = "rename"]
  /\ UNCHANGED <<fs, reqURL, via, lastLocation, resp, dest, destTmp, bar, copied,
                 ret, touched>>
  /\ UNCHANGED <<requested, redirected>>
  /\ UNCHANGED frame

\* another call holds path open for writing (no FILE_SHARE_DELETE on the
\* platform the installer runs on: such a file can be neither moved nor replaced)
OpenElsewhere(p, path) ==
  \E q \in Procs \ {p} : tmpOpen[q] /\ Clean(destTmp[q]) = Clean(path)

RenameTmp(p) ==
  /\ pc[p] = "rename"
  /\ CanRename(fs, destTmp[p], dest[p])
  /\ ~OpenElsewhere(p, destTmp[p]) /\ ~OpenElsewhere(p, dest[p])
  /\ fs' = Rename(fs, destTmp[p], dest[p])
  /\ touched' = [touched EXCEPT ![p] = @ \cup {Clean(destTmp[p]), Clean(dest[p])}]
  /\ Return(p, dest[p], NoErr)
  /\ UNCHANGED <<reqURL, via, lastLocation, resp, dest, destTmp, copied>>
  /\ UNCHANGED <<requested, redirected>>
  /\ UNCHANGED frame

RenameFail(p) ==
  /\ pc[p] = "rename"
  /\ Return(p, <<>>, ErrIO("Rename"))
  /\ UNCHANGED <<fs, reqURL, via, lastLocation, resp, dest, destTmp, copied, touched>>
  /\ UNCHANGED <<requested, redirected>>
  /\ UNCHANGED frame

(* --------------------------- specification ----------------------------- *)
Init ==
  /\ fs = InitFS
  /\ pc = [p \in Procs |-> "idle"]
  /\ resource = [p \in Procs |-> <<>>]
  /\ options = [p \in Procs |-> <<>>]
  /\ url = [p \in Procs |-> NoURL]
  /\ reqURL = [p \in Procs |-> NoURL]
  /\ via = [p \in Procs |-> 0]
  /\ lastLocation = [p \in Procs |-> <<>>]
  /\ resp = [p \in Procs |-> 0]
  /\ dest = [p \in Procs |-> <<>>]
  /\ destTmp = [p \in Procs |-> <<>>]
  /\ bodyOpen = [p \in Procs |-> FALSE]
  /\ tmpOpen = [p \in Procs |-> FALSE]
  /\ bar = [p \in Procs |-> "none"]
  /\ copied = [p \in Procs |-> 0]
  /\ ret = [p \in Procs |-> NotReturned]
  /\ fs0 = [p \in Procs |-> InitFS]
  /\ touched = [p \in Procs |-> {}]
  /\ parsed = [p \in Procs |-> FALSE]
  /\ requested = [p \in Procs |-> FALSE]
  /\ redirected = [p \in Procs |-> FALSE]
  /\ callNo = 0
  /\ callId = [p \in Procs |-> 0]

\* calls are made one after the other by MainProc
Next ==
  \/ \E res \in Resources, opt \in OptionValues : FetchLocal(MainProc, res, opt)
  \/ \E res \in Resources, opt \in OptionValues : FetchNoDestination(MainProc, res, opt)
  \/ \E res \in Resources, opt \in OptionValues : FetchBadURL(MainProc, res, opt)
  \/ \E res \in Resources, opt \in OptionValues : FetchFileURL(MainProc, res, opt)
  \/ \E res \in Resources, opt \in OptionValues : FetchHTTP(MainProc, res, opt)
  \/ \E res \in Resources, opt \in OptionValues : FetchUnknownScheme(MainProc, res, opt)
  \/ DoSendError(MainProc)
  \/ \E t \in RedirectTargets : DoRedirect(MainProc, t)
  \/ \E t \in RedirectTargets : DoTooManyRedirects(MainProc, t)
  \/ \E s \in Statuses : DoBadStatus(MainProc, s)
  \/ \E s \in Statuses : DoOK(MainProc, s)
  \/ ComputeDest(MainProc)
  \/ DestExists(MainProc)
  \/ DestAbsent(MainProc)
  \/ CreateTmp(MainProc)
  \/ CreateTmpFail(MainProc)
  \/ CopyChunk(MainProc)
  \/ CopyFail(MainProc)
  \/ CopyDone(MainProc)
  \/ RenameTmp(MainProc)
  \/ RenameFail(MainProc)

Spec == Init /\ [][Next]_vars

(* ------------------------- concurrent callers -------------------------- *)
\* Two callers, one Fetch each, running at the same time.  The first fetches to
\* the file path FileF, the second to a different file path or to a directory,
\* so that their final destination paths always differ.
ConcResource == <<"http:", Sep, Sep, "a", Sep, "x">>
ConcOptions(p) ==
  IF p = MainProc
    THEN { <<[Destination |-> FileF, Progress |-> FALSE]>> }
    ELSE { <<[Destination |-> FileF \o TmpSuffix, Progress |-> FALSE]>>,
           <<[Destination |-> DirT, Progress |-> FALSE]>> }
ConcRedirectTargets == { [Scheme |-> "http", Host |-> <<"b">>, Path |-> <<Sep, "y">>] }
ConcStatuses == {200, 404}

FetchOnce(p, opt) == callId[p] = 0 /\ FetchHTTP(p, ConcResource, opt)

NextConc ==
  \E p \in Procs :
    \/ \E opt \in ConcOptions(p) : FetchOnce(p, opt)
    \/ DoSendError(p)
    \/ \E t \in ConcRedirectTargets : DoRedirect(p, t)
    \/ \E t \in ConcRedirectTargets : DoTooManyRedirects(p, t)
    \/ \E st \in ConcStatuses : DoBadStatus(p, st)
    \/ \E st \in ConcStatuses : DoOK(p, st)
    \/ ComputeDest(p)
    \/ DestExists(p)
    \/ DestAbsent(p)
    \/ CreateTmp(p)
    \/ CreateTmpFail(p)
    \/ CopyChunk(p)
    \/ CopyFail(p)
    \/ CopyDone(p)
    \/ RenameTmp(p)
    \/ RenameFail(p)

SpecConc == Init /\ [][NextConc]_vars

(* ------------------------------ properties ----------------------------- *)
Called(p) == callId[p] > 0
IsHTTPCall(p) == Called(p) /\ FetchDispatch(fs0[p], resource[p], options[p]).kind = "http"
Succeeded(p) == ret[p].done /\ ret[p].err = NoErr
Complete(d) == \E c \in 0..(MaxCalls + 1) : d = BodyOf(c)
\* nothing but the paths in keep differs between fsys and fs0[p]
SameExcept(p, fsys, keep) ==
  /\ (DOMAIN fsys) \ keep = (DOMAIN fs0[p]) \ keep
  /\ \A q \in (DOMAIN fsys) \ keep : fsys[q] = fs0[p][q]

\* C1: in an HTTP fetch whose final destination path did not exist when the
\* call started, no file exists at the final path until the whole body has been
\* copied and the rename has succeeded, and before that the only file the fetch
\* creates or writes is <final>.download.
C1_AtomicVisibility ==
  \A p \in Procs :
    /\ pc[p] \in {"do", "dest", "exists", "create"} => touched[p] = {}
    /\ (dest[p] # <<>> /\ ~Stat(fs0[p], dest[p])) =>
         IF Stat(fs, dest[p])
           THEN /\ Succeeded(p)
                /\ ret[p].path = dest[p]
                /\ copied[p] = BodyLen
                /\ fs[Clean(dest[p])] = FileEntry(BodyOf(callId[p]))
           ELSE /\ touched[p] \subseteq {Clean(dest[p] \o <<".download">>)}
                /\ SameExcept(p, fs, {Clean(dest[p] \o <<".download">>)})

C1_Witness ==
  \E p \in Procs :
    /\ pc[p] = "copy" /\ copied[p] = 1
    /\ ~Stat(fs0[p], dest[p]) /\ ~Stat(fs, dest[p])
    /\ IsFile(fs, dest[p] \o <<".download">>)

\* C2: whenever a Fetch of an http(s) resource returns a path instead of an
\* error, the file at that path is never a half-written one, also after
\* earlier calls that failed partway.
C2_NoPartialSuccess ==
  \A p \in Procs :
    (IsHTTPCall(p) /\ Succeeded(p) /\ IsFile(fs, ret[p].path)) =>
      Complete(fs[Clean(ret[p].path)].data)

\* C3: with an existing directory as destination the final file name is the
\* base name of the last redirect target's path if a redirect was followed and
\* of the original URL's path otherwise; any other destination is used verbatim.
C3_RedirectNaming ==
  \A p \in Procs :
    dest[p] # <<>> =>
      LET d == Deref(options[p]).Destination
          named == IF redirected[p] THEN reqURL[p] ELSE ParseURL(resource[p]).u
      IN IF FileIsDir(fs0[p], d)
           THEN dest[p] = Join(d, Base(named.Path))
           ELSE dest[p] = d

C3_Witness ==
  \E p \in Procs :
    /\ dest[p] = <<Sep, "t", Sep, "y">>
    /\ ParseURL(resource[p]).u.Path = <<Sep, "x">>
    /\ redirected[p] /\ reqURL[p].Path = <<Sep, "y">>

C5_UnexpectedStatus ==
  \A p \in Procs :
    /\ (resp[p] # 0 /\ resp[p] # 200) =>
         /\ ret[p] = Returned(<<>>, Err("UnexpectedStatus", resp[p],
                                        ParseURL(resource[p]).u, ""))
         /\ pc[p] = "idle"
         /\ touched[p] = {}
         /\ fs = fs0[p]
    /\ ret[p].err.kind = "UnexpectedStatus" => (resp[p] # 0 /\ resp[p] # 200)

C5_Witness ==
  \E p \in Procs :
    /\ resp[p] = 206 /\ ret[p].done /\ ret[p].err.code = 206
    /\ redirected[p] /\ reqURL[p] # ret[p].err.url

\* C6: a redirect chain that reaches 10 redirects is aborted with
\* TooManyRedirectsError and creates no file; every shorter chain is followed to
\* its terminal response with lastLocation set to the last redirect target.
C6_RedirectCap ==
  /\ [](\A p \in Procs : via[p] <= 9)
  /\ [][\A p \in Procs :
          pc[p] = "do" =>
            /\ via[p] = 9 => pc'[p] # "do"
            /\ ret'[p].err.kind = "TooManyRedirects" =>
                 /\ via[p] = 9
                 /\ ret'[p] = Returned(<<>>, ErrTooManyRedirects)
                 /\ pc'[p] = "idle" /\ resp'[p] = 0
                 /\ fs' = fs0[p] /\ touched'[p] = {} /\ dest'[p] = <<>>
            /\ pc'[p] = "dest" =>
                 lastLocation'[p] = IF via[p] > 0 THEN <<reqURL[p]>> ELSE <<>>
       ]_vars

C6_Witness ==
  \E p \in Procs :
    /\ ret[p] = Returned(<<>>, ErrTooManyRedirects)
    /\ redirected[p] /\ requested[p] /\ fs = fs0[p]

\* C7: if reading the body or writing the temp file fails while streaming, Fetch
\* returns an error, the rename is never performed, no file is at the final
\* path, and the only artifact that may remain is <final>.download.
C7_CopyFailure ==
  \A p \in Procs :
    ret[p].err.kind = "Copy" =>
      /\ ret[p].done /\ ret[p].path = <<>> /\ pc[p] = "idle"
      /\ ~Stat(fs, dest[p])
      /\ touched[p] \subseteq {Clean(dest[p] \o <<".download">>)}
      /\ SameExcept(p, fs, {Clean(dest[p] \o <<".download">>)})

C7_Witness ==
  \E p \in Procs :
    /\ ret[p].err.kind = "Copy" /\ copied[p] = 1
    /\ IsFile(fs, dest[p] \o <<".download">>)
    /\ Len(fs[Clean(dest[p] \o <<".download">>)].data) = 1

\* C8: for a resource string that names an existing local file, and for every
\* options value, Fetch returns the string unchanged without error, without
\* parsing it as a URL, without a network request and without changing the
\* filesystem.
C8_LocalShortcut ==
  \A p \in Procs :
    (Called(p) /\ IsFile(fs0[p], resource[p])) =>
      /\ ret[p] = Returned(resource[p], NoErr)
      /\ pc[p] = "idle"
      /\ ~parsed[p]
      /\ ~requested[p]
      /\ touched[p] = {} /\ fs = fs0[p]

C8_Witness ==
  \E p \in Procs :
    /\ Called(p) /\ resource[p] = LocalL /\ options[p] = <<>>
    /\ ret[p] = Returned(LocalL, NoErr)

\* the path component of a file:// resource: what follows the authority, from
\* the first separator after "file://" on
RECURSIVE FromFirstSep(_)
FromFirstSep(str) ==
  IF str = <<>> \/ Head(str) = Sep THEN str ELSE FromFirstSep(Tail(str))
PathComponent(res) == FromFirstSep(SubSeq(res, 4, Len(res)))

\* C9: for a resource file://x requested with a destination, Fetch returns
\* exactly the path component x whether or not a file exists at x, with no
\* network request and no filesystem change.
C9_FileURL ==
  \A p \in Procs :
    (Called(p) /\ resource[p] \in FileResources
       /\ Deref(options[p]).Destination # <<>>) =>
      /\ ret[p] = Returned(PathComponent(resource[p]), NoErr)
      /\ pc[p] = "idle"
      /\ ~requested[p]
      /\ touched[p] = {} /\ fs = fs0[p]

C9_Witness ==
  \E p \in Procs :
    /\ Called(p) /\ resource[p] \in FileResources
    /\ Succeeded(p) /\ ret[p].path = <<Sep, "t", Sep, "m">>
    /\ ~Stat(fs, ret[p].path)

\* C10: without a destination (nil options or an empty Destination) Fetch
\* succeeds for an existing local file and for a file:// URL, and
\* MissingDestinationError is produced only for an http or https URL.
C10_DestinationOptional ==
  \A p \in Procs :
    Called(p) =>
      /\ (Deref(options[p]).Destination = <<>>
            /\ (IsFile(fs0[p], resource[p]) \/ resource[p] \in FileResources)) =>
           Succeeded(p)
      /\ ret[p].err.kind = "MissingDestination" => resource[p] \in HTTPResources


\* C11: an http or https fetch with nil options or an empty destination fails
\* with MissingDestinationError before any request is issued and without
\* creating or modifying a file.
C11_MissingDestination ==
  \A p \in Procs :
    (Called(p) /\ resource[p] \in HTTPResources
       /\ (options[p] = <<>> \/ options[p][1].Destination = <<>>)) =>
      /\ ret[p] = Returned(<<>>, Err("MissingDestination", 0, NoURL, ""))
      /\ pc[p] = "idle"
      /\ ~requested[p]
      /\ touched[p] = {} /\ fs = fs0[p]

C11_Witness ==
  \E p \in Procs :
    /\ Called(p) /\ resource[p] \in HTTPResources
    /\ options[p] # <<>> /\ options[p][1].Destination = <<>>
    /\ ret[p].done /\ ret[p].err.kind = "MissingDestination"


\* C12: for a resource that is not an existing local path and whose parsed
\* scheme is none of file, http, https, Fetch fails with UnsupportedSchemeError
\* naming the scheme, with no request and no filesystem change.
C12_UnsupportedScheme ==
  \A p \in Procs :
    (Called(p) /\ ~Stat(fs0[p], resource[p]) /\ ParseURL(resource[p]).ok
       /\ ParseURL(resource[p]).u.Scheme \notin {"file", "http", "https"}) =>
      /\ ret[p] = Returned(<<>>, Err("UnknownScheme", 0, NoURL,
                                     ParseURL(resource[p]).u.Scheme))
      /\ ~requested[p]
      /\ touched[p] = {} /\ fs = fs0[p]

C14_HandlesClosed ==
  \A p \in Procs :
    /\ pc[p] = "idle" => (~bodyOpen[p] /\ ~tmpOpen[p])
    /\ tmpOpen[p] => pc[p] = "copy"
    /\ bodyOpen[p] => pc[p] \in {"dest", "exists", "create", "copy"}

C14_Witness ==
  \E p \in Procs :
    /\ ret[p].done /\ ret[p].err.kind = "Copy" /\ copied[p] = 1
    /\ ~bodyOpen[p] /\ ~tmpOpen[p]


\* C15: two concurrent Fetch calls with different final destinations are
\* independent: each records only its own redirect target, writes only its own
\* temp file (and publishes only its own final file), keeps the atomic
\* visibility of its own destination, and returns the outcome it would return
\* when run alone.
C15_Independence ==
  \A p \in Procs :
    LET tmp == dest[p] \o <<".download">>
    IN /\ (resp[p] = 200) =>
            lastLocation[p] = IF redirected[p] THEN <<reqURL[p]>> ELSE <<>>
       /\ touched[p] \subseteq {Clean(tmp), Clean(dest[p])}
       /\ (dest[p] # <<>> /\ ~Stat(fs0[p], dest[p]) /\ ~Succeeded(p)) =>
            ~Stat(fs, dest[p])
       /\ (Succeeded(p) /\ ~Stat(fs0[p], ret[p].path)) =>
            /\ ret[p].path = dest[p]
            /\ touched[p] # {}
            /\ fs[Clean(dest[p])] = FileEntry(BodyOf(callId[p]))

\* C16: the rename of <final>.download to the final path happens only after the
\* copy has completed without error and both the temp-file handle and the
\* response body have been closed; if the rename fails, Fetch returns an error
\* and no file has been created at the final path.
C16_PublishOrdering ==
  /\ [](\A p \in Procs :
          /\ pc[p] = "rename" =>
               /\ copied[p] = BodyLen /\ ~tmpOpen[p] /\ ~bodyOpen[p]
               /\ IsFile(fs, dest[p] \o <<".download">>)
               /\ fs[Clean(dest[p] \o <<".download">>)].data = BodyOf(callId[p])
          /\ ret[p].err.kind = "Rename" =>
               /\ ret[p].done /\ ret[p].path = <<>>
               /\ ~Stat(fs, dest[p])
               /\ Clean(dest[p]) \notin touched[p])
  /\ [][\A p \in Procs :
          (Clean(dest[p]) \notin touched[p] /\ Clean(dest'[p]) \in touched'[p]) =>
            /\ pc[p] = "rename" /\ copied[p] = BodyLen
            /\ ~tmpOpen[p] /\ ~bodyOpen[p]
            /\ ret'[p] = Returned(dest[p], NoErr)
       ]_vars

C16_Witness ==
  \E p \in Procs :
    /\ ret[p].done /\ ret[p].err.kind = "Rename"
    /\ ~Stat(fs, dest[p])
    /\ IsFile(fs, dest[p] \o <<".download">>)

\* C17: a successful HTTP fetch that downloads (final destination absent at the
\* start) returns exactly the computed final destination path, leaves there a
\* file holding the complete response body, leaves no <final>.download behind
\* and changes no other file.
C17_DownloadEffect ==
  \A p \in Procs :
    (IsHTTPCall(p) /\ Succeeded(p) /\ ~Stat(fs0[p], ret[p].path)) =>
      /\ ret[p].path = dest[p]
      /\ IsFile(fs, dest[p])
      /\ fs[Clean(dest[p])].data = BodyOf(callId[p])
      /\ ~Stat(fs, dest[p] \o <<".download">>)
      /\ SameExcept(p, fs, {Clean(dest[p]), Clean(dest[p] \o <<".download">>)})

C17_Witness ==
  \E p \in Procs :
    /\ IsHTTPCall(p) /\ Succeeded(p) /\ ~Stat(fs0[p], ret[p].path)
    /\ redirected[p] /\ ret[p].path = <<Sep, "t", Sep, "y">>
    /\ LocalL \in DOMAIN fs

\* C18: a <final>.download left by an earlier fetch that failed partway neither
\* blocks nor contaminates a later fetch to the same destination: the temp file
\* is created empty, and after the later fetch succeeds the final file holds
\* exactly the complete body of the later response.
C18_FreshTempFile ==
  \A p \in Procs :
    LET tmp == dest[p] \o <<".download">>
    IN (IsHTTPCall(p) /\ dest[p] # <<>> /\ IsFile(fs0[p], tmp)) =>
         /\ pc[p] = "create" => CanCreate(fs, tmp)
         /\ pc[p] = "copy" =>
              /\ IsFile(fs, tmp)
              /\ fs[Clean(tmp)].data = SubSeq(BodyOf(callId[p]), 1, copied[p])
         /\ (Succeeded(p) /\ touched[p] # {}) =>
              fs[Clean(dest[p])] = FileEntry(BodyOf(callId[p]))

C18_Witness ==
  \E p \in Procs :
    /\ IsHTTPCall(p) /\ Succeeded(p) /\ touched[p] # {} /\ callId[p] = 2
    /\ IsFile(fs0[p], dest[p] \o <<".download">>)
    /\ fs0[p][Clean(dest[p] \o <<".download">>)].data = <<<<1, 1>>>>
    /\ fs[Clean(dest[p])].data = BodyOf(2)

\* C19: the already-fetched check comes after the request and the status check:
\* a fetch whose final destination already holds a file still issues the
\* request, returns the existing path exactly when the terminal response is
\* 200 and fails otherwise, and leaves the file unchanged either way.
C19_CheckAfterRequest ==
  \A p \in Procs :
    /\ (IsHTTPCall(p) /\ IsFile(fs0[p], Deref(options[p]).Destination)) =>
         /\ fs = fs0[p] /\ touched[p] = {}
         /\ ret[p].done =>
              /\ requested[p]
              /\ Succeeded(p) <=> resp[p] = 200
              /\ Succeeded(p) => ret[p].path = Deref(options[p]).Destination
              /\ ~Succeeded(p) => ret[p].path = <<>>
    /\ (dest[p] # <<>> /\ IsFile(fs0[p], dest[p])) =>
         /\ requested[p] /\ resp[p] = 200
         /\ fs = fs0[p] /\ touched[p] = {}

C19_Witness ==
  \E p \in Procs :
    /\ IsHTTPCall(p) /\ IsFile(fs0[p], Deref(options[p]).Destination)
    /\ ret[p].done /\ ret[p].err.kind = "UnexpectedStatus" /\ resp[p] = 404
    /\ requested[p] /\ fs = fs0[p]

\* C20: with an existing directory as destination the final destination path is
\* always a proper child of that directory, for every URL path including an
\* empty path, "/" or a path ending in "/"; the directory itself is never the
\* final destination nor returned as an already-fetched file.
C20_ProperChild ==
  \A p \in Procs :
    LET d == Deref(options[p]).Destination
    IN (IsHTTPCall(p) /\ FileIsDir(fs0[p], d)) =>
         /\ dest[p] # <<>> =>
              /\ Clean(dest[p]) # Clean(d)
              /\ Parent(dest[p]) = Clean(d)
         /\ Succeeded(p) => Clean(ret[p].path) # Clean(d)

====
